---- MODULE Spec2Model ----
(***************************************************************************)
(* SmartDoc frontend: the axios API client (lib/api.ts) with its request   *)
(* and response interceptors, and the dashboard's document fetching,       *)
(* polling, upload, analysis and delete handlers and its two chats (the    *)
(* global one and the one of the open document) that call through it.      *)
(*                                                                         *)
(* JavaScript runs one task at a time: a handler runs from one await to    *)
(* the next without interleaving, so every action below is one such run    *)
(* (a response arriving, a timer firing, a click), continuations of the    *)
(* awaiting caller included.                                               *)
(***************************************************************************)
EXTENDS Integers, FiniteSets, Sequences, Bags, TLC

\* ------------------------------------------------------------------ bounds
\* Requests that may be outstanding at the same time.
MaxReq == 2
\* Access credentials the refresh endpoint issues during one run.
MaxIssued == 2
\* Documents the server holds at most.
MaxDocs == 1
\* Notice timers (setTimeout of a success message) armed at the same time.
MaxNotice == 1
\* Messages a chat log holds at most.
MaxLog == 2
\* The latest reading of Date.now(), in milliseconds after the first.
MaxClock == 2
\* Calls of generateMessageId in one session.
MaxIds == 3

\* ------------------------------------------------------- program constants
\* localStorage.getItem gives null for a missing key; `if (token)` is false.
Absent == 0
\* The access credential stored by the login that started the session.
LoginToken == 1
\* No response reached the client: error.response is undefined.
NoResponse == 0

DocIds == 1..MaxDocs
\* Document.status, and "absent" for an id the collection does not hold.
DocStatuses == {"pending", "processing", "completed", "failed"}
NoDocs == [d \in DocIds |-> "absent"]
\* A request to which the backend has produced no document list (yet).
NoSnapshot == [d \in DocIds |-> "none"]
\* HTTP outcomes a call can have: success, unauthorized, any other failure
\* (4xx/5xx, timeout, no connectivity: error.response?.status is not 401).
Statuses == {200, 401, 500}
\* What can be typed into a question field, as sequences of characters:
\* nothing, white space only, a question with white space around it.
Texts == {<<>>, <<" ">>, <<" ", "q", " ">>}
\* The two chat scopes: handleAsk's `type` argument.
Scopes == {"global", "specific"}
\* The request kinds of the two ask endpoints.
AskKinds == {"global_ask", "ask"}

\* The file checks of handleUpload.
MAX_FILE_SIZE == 10 * 1024 * 1024
ALLOWED_FILE_TYPE == "application/pdf"

\* What the file input hands to handleUpload: no file (the dialog was
\* cancelled), or a file with its declared type and its size in bytes.
NoFile == [type |-> "none", size |-> 0]
FileTypes == {ALLOWED_FILE_TYPE, "image/png"}
FileSizes == {1, MAX_FILE_SIZE - 1, MAX_FILE_SIZE, MAX_FILE_SIZE + 1}
Files == {NoFile} \cup [type : FileTypes, size : FileSizes]

VARIABLES
    store,      \* localStorage: [access, refresh]
    reqs,       \* the request attempts in flight: a bag of requests
    issued,     \* the last access credential the refresh endpoint issued
    redirects,  \* assignments of window.location.href = '/login'
    page,       \* "alive", or "unloaded" once the navigation replaced the page
    ev,         \* what the last step returned to a call site
    view,            \* the Dashboard component: "mounting", "mounted", "unmounted"
    isAuthenticated, \* useState(false)
    isLoadingDocs,   \* useState(true)
    documents,       \* useState<Document[]>([]): status by document id
    uploading,       \* uploadProgress.uploading
    pollTimer,       \* the setInterval of useDocumentPolling is armed
    noticeTimers,    \* armed setTimeout(() => setSuccessMessage(null), 3000)
    pushed,          \* router.push('/login') was called
    serverDocs,      \* the backend's documents: status by document id
    messages,        \* useState<Message[]>([]): the document chat's log
    globalMessages,  \* useState<Message[]>([]): the global chat's log
    input,           \* the document chat's question field
    globalInput,     \* the global chat's question field
    isAsking,        \* useState(false): one flag for both chats
    activeDoc,       \* the id of the document whose chat is open, or 0
    msgIds           \* the ids generateMessageId returned (SpecIds only)

apiVars == <<store, reqs, issued, redirects, page, ev>>
apiVarsButEv == <<store, reqs, issued, redirects, page>>
chatVars == <<messages, globalMessages, input, globalInput, isAsking,
              activeDoc, msgIds>>
dashVars == <<view, isAuthenticated, isLoadingDocs, documents, uploading,
              pollTimer, noticeTimers, pushed, serverDocs, chatVars>>
vars == <<store, reqs, issued, redirects, page, ev, view, isAuthenticated,
          isLoadingDocs, documents, uploading, pollTimer, noticeTimers,
          pushed, serverDocs, messages, globalMessages, input, globalInput,
          isAsking, activeDoc, msgIds>>

\* ------------------------------------------------------------- TokenStore
ClearedStore == [access |-> Absent, refresh |-> FALSE]
LoggedInStore == [access |-> LoginToken, refresh |-> TRUE]

\* ---------------------------------------------------------------- requests
\* cap is what the awaiting call site's closure holds for its continuation:
\* handleDelete's `activeDoc` (its id, or 0).
NewRequest(kind, doc) ==
    [kind |-> kind, phase |-> "sent", hdr |-> Absent, retry |-> FALSE,
     via |-> "api", refreshCalls |-> 0, replays |-> 0, doc |-> doc,
     cap |-> 0, snap |-> NoSnapshot]

\* Mutant of RequestInterceptor: the credential of the login is attached,
\* whatever the store holds.
RequestInterceptorLoginToken(st, req) == [req EXCEPT !.hdr = LoginToken]

\* api.interceptors.request.use: attach the stored access credential, if any.
RequestInterceptor(st, req) ==
    IF st.access # Absent THEN [req EXCEPT !.hdr = st.access] ELSE req

\* A call site's api.get / api.post / api.delete.
ApiDispatch(st, kind, doc) == RequestInterceptor(st, NewRequest(kind, doc))

\* Requests are told apart by what they carry only, so the requests in
\* flight are a bag; at most MaxReq are outstanding at a time.
One(req) == SetToBag({req})
InFlight == BagToSet(reqs)
CanDispatch == BagCardinality(reqs) < MaxReq

\* ------------------------------------------------- results of one handler
Pending(st, req) ==
    [store |-> st, req |-> req, redirect |-> FALSE, outcome |-> "pending",
     status |-> 0, terminal |-> FALSE]

Resolved(st, req) ==
    [store |-> st, req |-> req, redirect |-> FALSE, outcome |-> "resolved",
     status |-> 200, terminal |-> FALSE]

\* return Promise.reject(error)
Rejected(st, req, status) ==
    [store |-> st, req |-> req, redirect |-> FALSE, outcome |-> "rejected",
     status |-> status, terminal |-> FALSE]

\* localStorage.clear(); window.location.href = '/login'; then reject.
TerminalFailure(req, status) ==
    [store |-> ClearedStore, req |-> req, redirect |-> TRUE,
     outcome |-> "rejected", status |-> status, terminal |-> TRUE]

\* originalRequest._retry = true
MarkRetried(req) == [req EXCEPT !.retry = TRUE]

\* Mutant of StartRefresh: the stale access credential is removed from the
\* store as soon as the refresh call is started.
StartRefreshDropsAccess(st, req) ==
    Pending([st EXCEPT !.access = Absent],
            [req EXCEPT !.phase = "refreshing",
                        !.refreshCalls = req.refreshCalls + 1])

\* axios.post(`${API_URL}/token/refresh/`, {refresh: refreshToken})
StartRefresh(st, req) ==
    Pending(st, [req EXCEPT !.phase = "refreshing",
                            !.refreshCalls = req.refreshCalls + 1])

\* Mutant of NoRefreshToken: the branch returns instead of falling through
\* to the rejection, so the call resolves.
NoRefreshTokenResolves(req, status) ==
    [store |-> ClearedStore, req |-> req, redirect |-> TRUE,
     outcome |-> "resolved", status |-> status, terminal |-> TRUE]

\* The 401 branch without a refresh credential: clear, redirect, and fall
\* through to the final Promise.reject(error).
NoRefreshToken(req, status) == TerminalFailure(req, status)

\* The response interceptor's error handler.
ResponseError(st, req, status) ==
    IF status = 401 /\ ~req.retry
    THEN IF st.refresh
         THEN StartRefresh(st, MarkRetried(req))
         ELSE NoRefreshToken(MarkRetried(req), status)
    ELSE Rejected(st, req, status)

\* The response to an attempt: api's interceptors see it only when the
\* attempt went through api; the replay goes through plain axios.
OnResponse(st, req, status) ==
    IF status = 200 THEN Resolved(st, req)
    ELSE IF req.via = "api" THEN ResponseError(st, req, status)
    ELSE Rejected(st, req, status)

\* Mutant of Replay: the Authorization header of the failed attempt is
\* left as it was.
ReplayKeepsHeader(req, tok) ==
    [req EXCEPT !.phase = "replay", !.via = "axios",
                !.replays = req.replays + 1]

\* Mutant of Replay: the replay is issued as a fresh request through api,
\* its retried mark lost.
ReplayAsFreshRequest(req, tok) ==
    [req EXCEPT !.hdr = tok, !.phase = "replay", !.via = "api",
                !.retry = FALSE, !.replays = req.replays + 1]

\* originalRequest.headers.Authorization = `Bearer ${response.data.access}`;
\* return axios(originalRequest)
Replay(req, tok) ==
    [req EXCEPT !.hdr = tok, !.phase = "replay", !.via = "axios",
                !.replays = req.replays + 1]

\* Mutant of Commit: the replay is sent without the store being written.
CommitNothing(st, tok) == st

\* localStorage.setItem('access_token', response.data.access)
Commit(st, tok) == [st EXCEPT !.access = tok]

\* The refresh call returned: commit and replay, or give the session up.
OnRefreshResponse(st, req, status, tok) ==
    IF status = 200
    THEN Pending(Commit(st, tok), Replay(req, tok))
    ELSE TerminalFailure(req, status)

\* ------------------------------------------------------------------ events
\* notice is what the step showed the user ("error", "success", or a
\* "message" in a chat log), file the file a step of handleUpload was given.
NoEvent ==
    [type |-> "none", kind |-> "none", outcome |-> "none",
     status |-> 0, terminal |-> FALSE, refreshCalls |-> 0, replays |-> 0,
     notice |-> "none", file |-> NoFile]

Settled(res) ==
    [type |-> "settle", kind |-> res.req.kind,
     outcome |-> res.outcome, status |-> res.status,
     terminal |-> res.terminal, refreshCalls |-> res.req.refreshCalls,
     replays |-> res.req.replays, notice |-> "none", file |-> NoFile]

\* A handler returned at once, without a call: handleAsk's early return.
Returned(kind) == [NoEvent EXCEPT !.type = "return", !.kind = kind]

\* Redirects are counted as none, one, or more than one.
Bump(n) == IF n < 2 THEN n + 1 ELSE n

\* The requests in flight after a handler ran on request req with result
\* res: the request goes on as res.req, or has settled.
AfterReqs(req, res) ==
    (reqs (-) One(req)) (+)
        (IF res.outcome = "pending" THEN One(res.req) ELSE EmptyBag)

\* The client alone: the handler's result is all that happens.
ApiStep(req, res) ==
    /\ reqs' = AfterReqs(req, res)
    /\ store' = res.store
    /\ redirects' = IF res.redirect THEN Bump(redirects) ELSE redirects
    /\ ev' = IF res.outcome = "pending" THEN NoEvent ELSE Settled(res)

\* ------------------------------------------------------ the client alone
\* Some call site of the exported client issues a request.
Call ==
    /\ page = "alive"
    /\ CanDispatch
    /\ reqs' = reqs (+) One(ApiDispatch(store, "call", 0))
    /\ ev' = NoEvent
    /\ UNCHANGED <<store, issued, redirects, page>>
    /\ UNCHANGED dashVars

\* The response to an attempt (original or replay) arrives.
Respond(req, status) ==
    /\ page = "alive"
    /\ req.phase \in {"sent", "replay"}
    /\ ApiStep(req, OnResponse(store, req, status))
    /\ UNCHANGED <<issued, page>>
    /\ UNCHANGED dashVars

\* The refresh endpoint answers with a new access credential.
RefreshOk(req) ==
    /\ page = "alive"
    /\ req.phase = "refreshing"
    /\ issued < LoginToken + MaxIssued
    /\ issued' = issued + 1
    /\ ApiStep(req, OnRefreshResponse(store, req, 200, issued + 1))
    /\ UNCHANGED page
    /\ UNCHANGED dashVars

\* The refresh endpoint rejects, or the call fails otherwise.
RefreshFail(req, status) ==
    /\ page = "alive"
    /\ req.phase = "refreshing"
    /\ status # 200
    /\ ApiStep(req, OnRefreshResponse(store, req, status, Absent))
    /\ UNCHANGED <<issued, page>>
    /\ UNCHANGED dashVars

\* What unmounting leaves of the component: its state is dropped and the
\* polling effect's cleanup clears the interval.
Teardown ==
    /\ view' = "unmounted"
    /\ isAuthenticated' = FALSE
    /\ isLoadingDocs' = TRUE
    /\ documents' = NoDocs
    /\ uploading' = FALSE
    /\ pollTimer' = FALSE
    /\ messages' = <<>>
    /\ globalMessages' = <<>>
    /\ input' = <<>>
    /\ globalInput' = <<>>
    /\ isAsking' = FALSE
    /\ activeDoc' = 0
    /\ msgIds' = <<>>

\* The navigation started by window.location.href replaces the page: its
\* script context, with every outstanding request and timer, is gone.
PageUnload ==
    /\ page = "alive"
    /\ redirects > 0
    /\ page' = "unloaded"
    /\ reqs' = EmptyBag
    /\ ev' = NoEvent
    /\ Teardown
    /\ noticeTimers' = 0
    /\ UNCHANGED <<store, issued, redirects, pushed, serverDocs>>

InitClient ==
    /\ store \in {LoggedInStore, ClearedStore}
    /\ reqs = EmptyBag
    /\ issued = LoginToken
    /\ redirects = 0
    /\ page = "alive"
    /\ ev = NoEvent

InitDashboard ==
    /\ view = "mounting"
    /\ isAuthenticated = FALSE
    /\ isLoadingDocs = TRUE
    /\ documents = NoDocs
    /\ uploading = FALSE
    /\ pollTimer = FALSE
    /\ noticeTimers = 0
    /\ pushed = FALSE
    /\ messages = <<>>
    /\ globalMessages = <<>>
    /\ input = <<>>
    /\ globalInput = <<>>
    /\ isAsking = FALSE
    /\ activeDoc = 0
    /\ msgIds = <<>>

InitApi ==
    /\ InitClient
    /\ InitDashboard
    /\ serverDocs = NoDocs

NextApi ==
    \/ Call
    \/ \E req \in InFlight, s \in Statuses : Respond(req, s)
    \/ \E req \in InFlight : RefreshOk(req)
    \/ \E req \in InFlight, s \in Statuses : RefreshFail(req, s)
    \/ PageUnload

SpecApi == InitApi /\ [][NextApi]_vars

\* ======================================================================
\* The dashboard
\* ======================================================================
\* Mutant of HasProcessingDocs: pending documents are not counted.
HasProcessingOnly(docs) == \E d \in DocIds : docs[d] = "processing"

\* documents.some(d => d.status === "processing" || d.status === "pending")
HasProcessingDocs(docs) ==
    \E d \in DocIds : docs[d] = "processing" \/ docs[d] = "pending"

\* useDocumentPolling's effect, re-run when `documents` is a new array: the
\* old interval is cleared and a new one is set only with work outstanding.
PollingEffect(docs) == HasProcessingDocs(docs)

\* The early return of the render: nothing can be clicked before the guard
\* passed and the first fetch settled.
UiVisible ==
    /\ page = "alive"
    /\ view = "mounted"
    /\ isAuthenticated
    /\ ~(isLoadingDocs /\ documents = NoDocs)

\* fetchDocs up to its await: api.get("/documents/").
FetchDocs(rq, st) == rq (+) One(ApiDispatch(st, "docs", 0))

\* ------------------------------------------------------------ the backend
FreeDocIds == {d \in DocIds : serverDocs[d] = "absent"}

\* The backend serves a request only with a credential, creates an uploaded
\* document as pending and starts the analysis of a pending document.
\* It deletes a document it holds and answers questions about an analysed
\* one.
ServerAccepts(req) ==
    /\ req.kind # "users" => req.hdr # Absent
    /\ req.kind = "upload" => FreeDocIds # {}
    /\ req.kind = "analyze" => serverDocs[req.doc] = "pending"
    /\ req.kind = "delete" => serverDocs[req.doc] # "absent"
    /\ req.kind = "ask" => serverDocs[req.doc] = "completed"

\* The registration endpoint needs no credential: it answers 401 only to
\* a request that presents one it does not accept. The other endpoints
\* answer 401 to any request.
ServerChallenges(req) == req.kind = "users" => req.hdr # Absent

ServerApply(req) ==
    CASE req.kind = "upload" ->
            [serverDocs EXCEPT
                ![CHOOSE d \in FreeDocIds : \A e \in FreeDocIds : d <= e] =
                    "pending"]
      [] req.kind = "analyze" -> [serverDocs EXCEPT ![req.doc] = "processing"]
      [] req.kind = "delete" -> [serverDocs EXCEPT ![req.doc] = "absent"]
      [] OTHER -> serverDocs

\* The background analysis of a document ends.
ServerProgress(d, result) ==
    /\ page = "alive"
    /\ serverDocs[d] = "processing"
    /\ serverDocs' = [serverDocs EXCEPT ![d] = result]
    /\ ev' = NoEvent
    /\ UNCHANGED <<store, reqs, issued, redirects, page>>
    /\ UNCHANGED <<view, isAuthenticated, isLoadingDocs, documents, uploading,
                   pollTimer, noticeTimers, pushed>>
    /\ UNCHANGED chatVars

\* ------------------------------------------------------------------- chat
\* String.prototype.trim: white space is stripped from both ends.
RECURSIVE Trim(_)
Trim(text) ==
    IF text = <<>> THEN text
    ELSE IF Head(text) = " " THEN Trim(Tail(text))
    ELSE IF text[Len(text)] = " " THEN Trim(SubSeq(text, 1, Len(text) - 1))
    ELSE text

\* Mutant of IsBlank: the question is tested without trimming it.
IsEmptyText(text) == text = <<>>

\* !text.trim()
IsBlank(text) == Trim(text) = <<>>

\* userMsg: the question as typed (it is not trimmed).
UserMessage(text, scope) ==
    [role |-> "user", content |-> text, sources |-> FALSE,
     isGlobal |-> (scope = "global")]

\* aiMsg with res.data.answer and res.data.sources; errorMsg with the
\* server's error or detail text or the default apology, and no sources.
Reply(res) ==
    [role |-> "ai",
     content |-> IF res.outcome = "resolved"
                 THEN <<"answer">> ELSE <<"failure">>,
     sources |-> (res.outcome = "resolved"),
     isGlobal |-> (res.req.kind = "global_ask")]

\* Mutant of AppendMessage: the new message is put in front.
PrependMessage(log, msg) == <<msg>> \o log

\* prev => [...prev, msg]
AppendMessage(log, msg) == Append(log, msg)

\* Mutant of AppendReply: a failed ask appends nothing.
AppendAnswerOnly(log, res) ==
    IF res.outcome = "resolved" THEN AppendMessage(log, Reply(res)) ELSE log

\* The try and the catch branch of handleAsk both append one message.
AppendReply(log, res) == AppendMessage(log, Reply(res))

\* The global chat is rendered without an active document, the document
\* chat with one.
FormShown(scope) == IF scope = "global" THEN activeDoc = 0 ELSE activeDoc # 0

\* Mutant of InputEnabled: the global form does not look at the documents.
InputEnabledWithoutDocuments(scope) == ~isAsking

\* Mutant of InputEnabled: the forms are not disabled during an ask.
InputEnabledWhileAsking(scope) ==
    scope = "global" => \E d \in DocIds : documents[d] = "completed"

\* The `disabled` attribute of the question field (the submit button has
\* it too): isAsking, and for the global chat no completed document.
InputEnabled(scope) ==
    /\ ~isAsking
    /\ scope = "global" => \E d \in DocIds : documents[d] = "completed"

Buffer(scope) == IF scope = "global" THEN globalInput ELSE input
Log(scope) == IF scope = "global" THEN globalMessages ELSE messages

\* Mutant of AskKind: every question goes to the global endpoint.
AskKindGlobalOnly(scope) == "global_ask"

\* isGlobal ? "/documents/global_ask/" : `/documents/${activeDoc?.id}/ask/`
AskKind(scope) == IF scope = "global" THEN "global_ask" ELSE "ask"
AskTarget(scope) == IF scope = "global" THEN 0 ELSE activeDoc

\* ------------------------------------------------- continuations of calls
\* fetchDocs' catch: err.response?.status === 401.
SessionExpired(res) ==
    /\ res.req.kind = "docs"
    /\ res.outcome = "rejected"
    /\ res.status = 401

\* handleUpload and startAnalysis after their await: fetchDocs().
Refetches(res) ==
    /\ res.outcome = "resolved"
    /\ res.req.kind \in {"upload", "analyze"}

\* handleUpload, startAnalysis and handleDelete after their await: a notice
\* with its setTimeout.
Notifies(res) ==
    /\ res.outcome = "resolved"
    /\ res.req.kind \in {"upload", "analyze", "delete"}

\* Mutant of AppliesSnapshot: the collection is also refreshed when an
\* analysis was started.
AppliesSnapshotOnAnalyze(res) ==
    /\ view = "mounted"
    /\ res.outcome = "resolved"
    /\ res.req.kind \in {"docs", "analyze"}

\* fetchDocs after its await: setDocuments(data).
AppliesSnapshot(res) ==
    /\ view = "mounted"
    /\ res.outcome = "resolved"
    /\ res.req.kind = "docs"

\* Mutant of SetDocuments: the snapshot is merged into the collection, so
\* a document the snapshot does not hold is kept.
MergeDocuments(prev, data) ==
    [d \in DocIds |-> IF data[d] = "absent" THEN prev[d] ELSE data[d]]

\* setDocuments(data)
SetDocuments(prev, data) == data

\* handleDelete after its await: setDocuments(prev => prev.filter(...)).
RemovesDocument(res) ==
    /\ view = "mounted"
    /\ res.outcome = "resolved"
    /\ res.req.kind = "delete"

\* if (activeDoc?.id === doc.id), with the activeDoc of the render in which
\* the delete was clicked: setActiveDoc(null); setMessages([]).
ClosesDeleted(res) ==
    /\ RemovesDocument(res)
    /\ res.req.cap = res.req.doc

\* handleAsk after its await, on either path: a message for the log of the
\* scope the question was asked in.
AppendsReply(res, kind) ==
    /\ view = "mounted"
    /\ res.outcome # "pending"
    /\ res.req.kind = kind

\* Mutant of ClearsAsking: the flag is cleared after an answer only.
ClearsAskingOnSuccess(res) ==
    /\ view = "mounted"
    /\ res.outcome = "resolved"
    /\ res.req.kind \in AskKinds

\* handleAsk's finally: setIsAsking(false).
ClearsAsking(res) ==
    /\ view = "mounted"
    /\ res.outcome # "pending"
    /\ res.req.kind \in AskKinds

\* handleSignup after its await: alert(...); router.push("/login").
SignedUp(res) ==
    /\ res.outcome = "resolved"
    /\ res.req.kind = "users"

\* What the call site shows for a settled call: the alert of handleSignup
\* and the setError of its catch; in the dashboard setSuccessMessage on the
\* success paths, setError in the catch blocks of handleUpload,
\* startAnalysis and handleDelete and for a 401 in fetchDocs' (its other
\* failures go to console.error only), a message in handleAsk.
Notice(res) ==
    IF res.outcome = "pending" THEN "none"
    ELSE IF res.req.kind = "users"
         THEN IF SignedUp(res) THEN "success" ELSE "error"
    ELSE IF view # "mounted" THEN "none"
    ELSE IF res.req.kind \in AskKinds THEN "message"
    ELSE IF Notifies(res) THEN "success"
    ELSE IF SessionExpired(res) THEN "error"
    ELSE IF /\ res.outcome = "rejected"
            /\ res.req.kind \in {"upload", "analyze", "delete"}
         THEN "error"
    ELSE "none"

\* The backend served the request: its response arrived, or was lost.
ServerServed(res) ==
    \/ res.outcome = "resolved"
    \/ res.outcome = "rejected" /\ res.status = NoResponse

\* response.data of a document fetch: the list the backend produced when it
\* served the request, which is the current one unless the response has
\* been under way since.
ResponseData(req, current) ==
    IF req.snap = NoSnapshot THEN current ELSE req.snap

\* The call site's code after the await, run with the handler's result.
Continue(req, res) ==
    LET st == IF SessionExpired(res) THEN ClearedStore ELSE res.store
        settled == res.outcome # "pending"
    IN  /\ Notifies(res) => noticeTimers < MaxNotice
        /\ serverDocs' = IF ServerServed(res)
                         THEN ServerApply(res.req) ELSE serverDocs
        /\ store' = st
        /\ pushed' = (pushed \/ SessionExpired(res) \/ SignedUp(res))
        /\ reqs' = IF Refetches(res)
                   THEN FetchDocs(AfterReqs(req, res), st)
                   ELSE AfterReqs(req, res)
        /\ noticeTimers' = IF Notifies(res)
                           THEN noticeTimers + 1 ELSE noticeTimers
        /\ documents' =
              IF AppliesSnapshot(res)
              THEN SetDocuments(documents, ResponseData(res.req, serverDocs'))
              ELSE IF RemovesDocument(res)
                   THEN [documents EXCEPT ![res.req.doc] = "absent"]
                   ELSE documents
        /\ pollTimer' = IF AppliesSnapshot(res) \/ RemovesDocument(res)
                        THEN PollingEffect(documents') ELSE pollTimer
        /\ isLoadingDocs' =
              IF view = "mounted" /\ settled /\ res.req.kind = "docs"
              THEN FALSE ELSE isLoadingDocs
        /\ uploading' =
              IF view = "mounted" /\ settled /\ res.req.kind = "upload"
              THEN FALSE ELSE uploading
        /\ messages' =
              IF AppendsReply(res, "ask") THEN AppendReply(messages, res)
              ELSE IF ClosesDeleted(res) THEN <<>> ELSE messages
        /\ globalMessages' =
              IF AppendsReply(res, "global_ask")
              THEN AppendReply(globalMessages, res) ELSE globalMessages
        /\ isAsking' = IF ClearsAsking(res) THEN FALSE ELSE isAsking
        /\ activeDoc' = IF ClosesDeleted(res) THEN 0 ELSE activeDoc
        /\ redirects' = IF res.redirect THEN Bump(redirects) ELSE redirects
        /\ ev' = IF settled
                 THEN [Settled(res) EXCEPT !.notice = Notice(res)]
                 ELSE NoEvent
        /\ UNCHANGED <<view, isAuthenticated, input, globalInput, msgIds>>

\* ----------------------------------------------------------------- actions
\* Mutant of HasToken: the auth check lets everyone in.
HasTokenAlways(st) == TRUE

\* The auth check's test of localStorage.getItem('access_token').
HasToken(st) == st.access # Absent

\* The mount effects: the auth check, and the first fetch once authenticated.
AuthCheck ==
    /\ page = "alive"
    /\ view = "mounting"
    /\ view' = "mounted"
    /\ ev' = NoEvent
    /\ IF ~HasToken(store)
       THEN /\ pushed' = TRUE
            /\ UNCHANGED <<isAuthenticated, reqs>>
       ELSE /\ isAuthenticated' = TRUE
            /\ reqs' = FetchDocs(reqs, store)
            /\ UNCHANGED pushed
    /\ UNCHANGED <<store, issued, redirects, page, isLoadingDocs, documents,
                   uploading, pollTimer, noticeTimers, serverDocs>>
    /\ UNCHANGED chatVars

\* The polling interval fires: fetchDocs().
PollTick ==
    /\ page = "alive"
    /\ pollTimer
    /\ CanDispatch
    /\ reqs' = FetchDocs(reqs, store)
    /\ ev' = NoEvent
    /\ UNCHANGED <<store, issued, redirects, page>>
    /\ UNCHANGED dashVars

\* handleUpload with an accepted file.
Upload ==
    /\ UiVisible
    /\ ~uploading
    /\ CanDispatch
    /\ uploading' = TRUE
    /\ reqs' = reqs (+) One(ApiDispatch(store, "upload", 0))
    /\ ev' = NoEvent
    /\ UNCHANGED <<store, issued, redirects, page>>
    /\ UNCHANGED <<view, isAuthenticated, isLoadingDocs, documents, pollTimer,
                   noticeTimers, pushed, serverDocs>>
    /\ UNCHANGED chatVars

\* Mutant of FileAccepted: a file of exactly the size limit is refused.
FileAcceptedBelowLimit(file) ==
    /\ file # NoFile
    /\ file.type = ALLOWED_FILE_TYPE
    /\ file.size < MAX_FILE_SIZE

\* handleSignup(e) of the signup page, up to its await: setError and
\* return if the two passwords differ, else api.post("/users/", ...).
Signup(password, confirmPassword) ==
    /\ page = "alive"
    /\ IF password # confirmPassword
       THEN /\ ev' = [Returned("users") EXCEPT !.notice = "error"]
            /\ UNCHANGED reqs
       ELSE /\ CanDispatch
            /\ reqs' = reqs (+) One(ApiDispatch(store, "users", 0))
            /\ ev' = [NoEvent EXCEPT !.type = "call", !.kind = "users"]
    /\ UNCHANGED <<store, issued, redirects, page>>
    /\ UNCHANGED dashVars

\* The checks at the head of handleUpload.
FileAccepted(file) ==
    /\ file # NoFile
    /\ file.type = ALLOWED_FILE_TYPE
    /\ ~(file.size > MAX_FILE_SIZE)

\* handleUpload(e) with the file of the change event: nothing without a
\* file, setError and return for a wrong type or size, else the upload.
HandleUpload(file) ==
    /\ UiVisible
    /\ ~uploading
    /\ IF FileAccepted(file)
       THEN /\ CanDispatch
            /\ uploading' = TRUE
            /\ reqs' = reqs (+) One(ApiDispatch(store, "upload", 0))
            /\ ev' = [NoEvent EXCEPT !.type = "call", !.kind = "upload",
                                     !.file = file]
       ELSE /\ ev' = [Returned("upload") EXCEPT
                        !.file = file,
                        !.notice = IF file = NoFile THEN "none" ELSE "error"]
            /\ UNCHANGED <<uploading, reqs>>
    /\ UNCHANGED <<store, issued, redirects, page>>
    /\ UNCHANGED <<view, isAuthenticated, isLoadingDocs, documents, pollTimer,
                   noticeTimers, pushed, serverDocs>>
    /\ UNCHANGED chatVars

\* startAnalysis(doc), offered for a document shown as pending.
StartAnalysis(d) ==
    /\ UiVisible
    /\ documents[d] = "pending"
    /\ CanDispatch
    /\ reqs' = reqs (+) One(ApiDispatch(store, "analyze", d))
    /\ ev' = NoEvent
    /\ UNCHANGED <<store, issued, redirects, page>>
    /\ UNCHANGED dashVars

\* handleDelete(doc), the confirm dialog accepted; the closure keeps the
\* activeDoc of this render for the code after the await.
Delete(d) ==
    /\ UiVisible
    /\ documents[d] # "absent"
    /\ CanDispatch
    /\ reqs' = reqs (+) One([ApiDispatch(store, "delete", d)
                                EXCEPT !.cap = activeDoc])
    /\ ev' = NoEvent
    /\ UNCHANGED <<store, issued, redirects, page>>
    /\ UNCHANGED dashVars

\* Open Chat, offered for a completed document: setActiveDoc(doc);
\* setMessages([]).
OpenChat(d) ==
    /\ UiVisible
    /\ documents[d] = "completed"
    /\ activeDoc' = d
    /\ messages' = <<>>
    /\ ev' = NoEvent
    /\ UNCHANGED apiVarsButEv
    /\ UNCHANGED <<view, isAuthenticated, isLoadingDocs, documents, uploading,
                   pollTimer, noticeTimers, pushed, serverDocs>>
    /\ UNCHANGED <<globalMessages, input, globalInput, isAsking, msgIds>>

\* The close button of the document chat: setActiveDoc(null);
\* setMessages([]).
CloseChat ==
    /\ UiVisible
    /\ activeDoc # 0
    /\ activeDoc' = 0
    /\ messages' = <<>>
    /\ ev' = NoEvent
    /\ UNCHANGED apiVarsButEv
    /\ UNCHANGED <<view, isAuthenticated, isLoadingDocs, documents, uploading,
                   pollTimer, noticeTimers, pushed, serverDocs>>
    /\ UNCHANGED <<globalMessages, input, globalInput, isAsking, msgIds>>

\* onChange of a question field: setInput / setGlobalInput.
TypeQuestion(scope, text) ==
    /\ UiVisible
    /\ FormShown(scope)
    /\ InputEnabled(scope)
    /\ text # Buffer(scope)
    /\ IF scope = "global"
       THEN globalInput' = text /\ UNCHANGED input
       ELSE input' = text /\ UNCHANGED globalInput
    /\ ev' = NoEvent
    /\ UNCHANGED apiVarsButEv
    /\ UNCHANGED <<view, isAuthenticated, isLoadingDocs, documents, uploading,
                   pollTimer, noticeTimers, pushed, serverDocs>>
    /\ UNCHANGED <<messages, globalMessages, isAsking, activeDoc, msgIds>>

\* handleAsk for a question that is not blank, up to its await.
AcceptAsk(scope) ==
    LET text == Buffer(scope)
        userMsg == UserMessage(text, scope)
    IN  /\ CanDispatch
        /\ Len(Log(scope)) + 2 <= MaxLog
        /\ IF scope = "global"
           THEN /\ globalMessages' = AppendMessage(globalMessages, userMsg)
                /\ globalInput' = <<>>
                /\ UNCHANGED <<messages, input>>
           ELSE /\ messages' = AppendMessage(messages, userMsg)
                /\ input' = <<>>
                /\ UNCHANGED <<globalMessages, globalInput>>
        /\ isAsking' = TRUE
        /\ reqs' = reqs (+)
                     One(ApiDispatch(store, AskKind(scope), AskTarget(scope)))
        /\ ev' = NoEvent
        /\ UNCHANGED activeDoc

\* The submit event of a chat form: handleAsk(e, type). The question field
\* takes no input while it is disabled; handleAsk itself turns a blank
\* question away.
SubmitAsk(scope) ==
    /\ UiVisible
    /\ FormShown(scope)
    /\ InputEnabled(scope)
    /\ IF IsBlank(Buffer(scope))
       THEN /\ ev' = Returned(AskKind(scope))
            /\ UNCHANGED <<reqs, messages, globalMessages, input, globalInput,
                           isAsking, activeDoc>>
       ELSE AcceptAsk(scope)
    /\ UNCHANGED msgIds
    /\ UNCHANGED <<store, issued, redirects, page>>
    /\ UNCHANGED <<view, isAuthenticated, isLoadingDocs, documents, uploading,
                   pollTimer, noticeTimers, pushed, serverDocs>>

\* handleLogout
Logout ==
    /\ UiVisible
    /\ store' = ClearedStore
    /\ pushed' = TRUE
    /\ ev' = NoEvent
    /\ UNCHANGED <<reqs, issued, redirects, page>>
    /\ UNCHANGED <<view, isAuthenticated, isLoadingDocs, documents, uploading,
                   pollTimer, noticeTimers, serverDocs>>
    /\ UNCHANGED chatVars

\* The view is left (the route changes): the component unmounts, the script
\* context stays.
Unmount ==
    /\ page = "alive"
    /\ view = "mounted"
    /\ Teardown
    /\ ev' = NoEvent
    /\ UNCHANGED <<store, reqs, issued, redirects, page>>
    /\ UNCHANGED <<noticeTimers, pushed, serverDocs>>

\* A notice's timeout fires: setSuccessMessage(null).
NoticeTimerFire ==
    /\ page = "alive"
    /\ noticeTimers > 0
    /\ noticeTimers' = noticeTimers - 1
    /\ ev' = NoEvent
    /\ UNCHANGED <<store, reqs, issued, redirects, page>>
    /\ UNCHANGED <<view, isAuthenticated, isLoadingDocs, documents, uploading,
                   pollTimer, pushed, serverDocs>>
    /\ UNCHANGED chatVars

\* The response to an attempt of a dashboard call arrives.
DashRespond(req, status) ==
    /\ page = "alive"
    /\ req.phase \in {"sent", "replay"}
    /\ status = 200 => ServerAccepts(req)
    /\ status = 401 => ServerChallenges(req)
    /\ req.snap # NoSnapshot => status = 200
    /\ Continue(req, OnResponse(store, req, status))
    /\ UNCHANGED <<issued, page>>

\* The backend serves a document fetch: its response, with the list as it
\* is now, is under way and may be overtaken by responses produced later.
ServerSnapshot(req) ==
    /\ page = "alive"
    /\ req.kind = "docs"
    /\ req.phase \in {"sent", "replay"}
    /\ req.snap = NoSnapshot
    /\ ServerAccepts(req)
    /\ reqs' = (reqs (-) One(req)) (+) One([req EXCEPT !.snap = serverDocs])
    /\ ev' = NoEvent
    /\ UNCHANGED <<store, issued, redirects, page>>
    /\ UNCHANGED dashVars

\* The backend serves an attempt, and its response does not reach the
\* client (the connection is lost, or the fetch's timeout elapses first).
DashLostResponse(req) ==
    /\ page = "alive"
    /\ req.phase \in {"sent", "replay"}
    /\ ServerAccepts(req)
    /\ Continue(req, OnResponse(store, req, NoResponse))
    /\ UNCHANGED <<issued, page>>

DashRefreshOk(req) ==
    /\ page = "alive"
    /\ req.phase = "refreshing"
    /\ issued < LoginToken + MaxIssued
    /\ issued' = issued + 1
    /\ Continue(req, OnRefreshResponse(store, req, 200, issued + 1))
    /\ UNCHANGED page

DashRefreshFail(req, status) ==
    /\ page = "alive"
    /\ req.phase = "refreshing"
    /\ status # 200
    /\ Continue(req, OnRefreshResponse(store, req, status, Absent))
    /\ UNCHANGED <<issued, page>>

Init ==
    /\ InitClient
    /\ InitDashboard
    /\ serverDocs = NoDocs

Next ==
    \/ AuthCheck
    \/ PollTick
    \/ Upload
    \/ \E d \in DocIds : StartAnalysis(d)
    \/ Logout
    \/ Unmount
    \/ NoticeTimerFire
    \/ \E d \in DocIds : Delete(d)
    \/ \E req \in InFlight, s \in Statuses : DashRespond(req, s)
    \/ \E req \in InFlight : DashLostResponse(req)
    \/ \E req \in InFlight : DashRefreshOk(req)
    \/ \E req \in InFlight, s \in Statuses : DashRefreshFail(req, s)
    \/ \E d \in DocIds, res \in {"completed", "failed"} : ServerProgress(d, res)
    \/ PageUnload

Spec == Init /\ [][Next]_vars

\* The dashboard during a session whose access credential stays valid: no
\* request is answered 401, and the user does not log out.
NextValid ==
    \/ AuthCheck
    \/ PollTick
    \/ Upload
    \/ \E d \in DocIds : StartAnalysis(d)
    \/ Unmount
    \/ NoticeTimerFire
    \/ \E d \in DocIds : Delete(d)
    \/ \E req \in InFlight, s \in Statuses \ {401} : DashRespond(req, s)
    \/ \E req \in InFlight : DashLostResponse(req)
    \/ \E d \in DocIds, res \in {"completed", "failed"} : ServerProgress(d, res)

SpecValid == Init /\ [][NextValid]_vars

\* Math.random().toString(36) without its leading "0.": the base-36 digits
\* of a number in [0, 1), none for 0 itself and more than nine for most
\* numbers. Two of the samples differ in their tenth digit only.
Randoms ==
    {<<>>, <<"a">>, <<"b">>,
     <<"a", "a", "a", "a", "a", "a", "a", "a", "a", "a">>,
     <<"a", "a", "a", "a", "a", "a", "a", "a", "a", "b">>}

\* str.substr(2, 9) of "0." followed by digits: the first nine digits, or
\* fewer if there are fewer.
Substr9(digits) ==
    SubSeq(digits, 1, IF Len(digits) < 9 THEN Len(digits) ELSE 9)

\* generateMessageId: `msg_${Date.now()}_${Math.random()...substr(2, 9)}`.
GenerateMessageId(now, rnd) == [ms |-> now, suffix |-> Substr9(rnd)]

\* One call of generateMessageId, at a time that is not before the last
\* call's.
NewMessageId(now, rnd) ==
    /\ Len(msgIds) < MaxIds
    /\ msgIds # <<>> => now >= msgIds[Len(msgIds)].ms
    /\ msgIds' = Append(msgIds, GenerateMessageId(now, rnd))
    /\ UNCHANGED <<store, reqs, issued, redirects, page, ev, view,
                   isAuthenticated, isLoadingDocs, documents, uploading,
                   pollTimer, noticeTimers, pushed, serverDocs, messages,
                   globalMessages, input, globalInput, isAsking, activeDoc>>

\* The ids of one session, for every clock reading and random sample.
NextIds == \E now \in 1..MaxClock, rnd \in Randoms : NewMessageId(now, rnd)

SpecIds == Init /\ [][NextIds]_vars

\* The signup page, opened with or without a stored session.
Passwords == {"secret", "other"}

NextSignup ==
    \/ \E password, confirmPassword \in Passwords :
          Signup(password, confirmPassword)
    \/ \E req \in InFlight, s \in Statuses : DashRespond(req, s)
    \/ \E req \in InFlight : DashRefreshOk(req)
    \/ \E req \in InFlight, s \in Statuses : DashRefreshFail(req, s)
    \/ PageUnload

SpecSignup == InitApi /\ [][NextSignup]_vars

\* A valid session in which the user picks files of every kind.
NextUpload ==
    \/ AuthCheck
    \/ PollTick
    \/ \E file \in Files : HandleUpload(file)
    \/ \E d \in DocIds : StartAnalysis(d)
    \/ NoticeTimerFire
    \/ \E req \in InFlight, s \in {200, 500} : DashRespond(req, s)
    \/ \E d \in DocIds, res \in {"completed", "failed"} : ServerProgress(d, res)

SpecUpload == Init /\ [][NextUpload]_vars

\* The dashboard of a logged-in user who may hold documents from earlier
\* sessions, staying mounted.
InitLive ==
    /\ InitClient
    /\ store = LoggedInStore
    /\ InitDashboard
    /\ serverDocs \in [DocIds -> DocStatuses \cup {"absent"}]

DocKinds == {"docs", "upload", "analyze"}

\* A request of the kind is answered, with success or with a failure.
Answer(kind) ==
    \E req \in InFlight, s \in {200, 500} :
        req.kind = kind /\ DashRespond(req, s)

NextLive ==
    \/ AuthCheck
    \/ PollTick
    \/ Upload
    \/ \E d \in DocIds : StartAnalysis(d)
    \/ NoticeTimerFire
    \/ \E kind \in DocKinds : Answer(kind)
    \/ \E d \in DocIds, res \in {"completed", "failed"} : ServerProgress(d, res)

\* The mount effects run, armed timers fire, every request is answered and
\* a running analysis ends; what the user does is up to the user.
SpecLive ==
    /\ InitLive
    /\ [][NextLive]_vars
    /\ WF_vars(AuthCheck)
    /\ WF_vars(PollTick)
    /\ WF_vars(NoticeTimerFire)
    /\ \A kind \in DocKinds : WF_vars(Answer(kind))
    /\ WF_vars(\E d \in DocIds, res \in {"completed", "failed"} :
                  ServerProgress(d, res))

\* The chats of the dashboard, for a user whose documents were analysed in
\* earlier sessions.
InitChat ==
    /\ InitClient
    /\ InitDashboard
    /\ serverDocs \in [DocIds -> {"absent", "completed"}]

NextChat ==
    \/ AuthCheck
    \/ \E d \in DocIds : OpenChat(d)
    \/ CloseChat
    \/ \E scope \in Scopes, text \in Texts : TypeQuestion(scope, text)
    \/ \E scope \in Scopes : SubmitAsk(scope)
    \/ \E d \in DocIds : Delete(d)
    \/ Unmount
    \/ NoticeTimerFire
    \/ \E req \in InFlight, s \in Statuses \ {401} : DashRespond(req, s)

SpecChat == InitChat /\ [][NextChat]_vars

\* Every operation on the library and on the document chat, in a session
\* that stays mounted, starts with an empty library and has every call
\* answered; the list is fetched at mount and after upload and analyze.
InitLibrary ==
    /\ InitClient
    /\ store = LoggedInStore
    /\ InitDashboard
    /\ serverDocs = NoDocs

NextLibrary ==
    \/ AuthCheck
    \/ Upload
    \/ \E d \in DocIds : StartAnalysis(d)
    \/ \E d \in DocIds : Delete(d)
    \/ \E d \in DocIds : OpenChat(d)
    \/ CloseChat
    \/ TypeQuestion("specific", <<" ", "q", " ">>)
    \/ SubmitAsk("specific")
    \/ NoticeTimerFire
    \/ \E req \in InFlight : DashRespond(req, 200)
    \/ \E d \in DocIds : ServerProgress(d, "completed")

SpecLibrary == InitLibrary /\ [][NextLibrary]_vars

\* The document chat while the collection is polled: responses of fetches
\* may arrive in another order than the backend produced them.
NextReorder ==
    \/ AuthCheck
    \/ PollTick
    \/ \E d \in DocIds, res \in {"completed", "failed"} : ServerProgress(d, res)
    \/ \E req \in InFlight : ServerSnapshot(req)
    \/ \E req \in InFlight, s \in {200, 500} : DashRespond(req, s)
    \/ \E d \in DocIds : OpenChat(d)
    \/ CloseChat
    \/ \E text \in Texts : TypeQuestion("specific", text)
    \/ SubmitAsk("specific")
    \/ \E d \in DocIds : Delete(d)
    \/ NoticeTimerFire

SpecReorder == InitLive /\ [][NextReorder]_vars

\* ======================================================================
\* Properties of the API client (checked under SpecApi)
\* ======================================================================
\* How many requests in flight are in one of the phases.
CountIn(phases) ==
    BagCardinality([req \in {q \in InFlight : q.phase \in phases} |-> reqs[req]])

\* The attempts the step sends to the server: new requests and replays.
Dispatched ==
    {req \in BagToSet(reqs' (-) reqs) : req.phase \in {"sent", "replay"}}

\* The requests the step takes out of the phase they were in.
Left == BagToSet(reqs (-) reqs')

\* The step is the refresh call of req failing (the page staying alive).
RefreshFailed(req) ==
    /\ req \in Left
    /\ req.phase = "refreshing"
    /\ ev'.type = "settle"

\* The step is a 401 on the first attempt of req with no refresh credential.
UnauthorizedWithoutRefresh(req) ==
    /\ req \in Left
    /\ req.phase = "sent"
    /\ ~store.refresh
    /\ ev'.type = "settle" /\ ev'.status = 401

\* C1: requests that receive a 401 while a refresh is outstanding share that
\* refresh: the refresh endpoint is never called a second time while a call
\* to it is outstanding (single flight).
C1_SingleFlightRefresh == CountIn({"refreshing"}) <= 1

\* C2: when refresh calls fail, the clear-and-redirect transition happens
\* exactly once however many requests triggered it, and once every request
\* has settled the TokenStore is empty.
C2_TerminalTransitionOnce ==
    /\ redirects <= 1
    /\ (redirects > 0 /\ reqs = EmptyBag => store = ClearedStore)

\* C3: once a refresh has committed a new access credential, the replay
\* carries exactly the credential just committed, a request dispatched
\* afterwards carries the credential the store holds (the newest one), and
\* no credential replaced by a commit is attached to any attempt sent.
C3_NewCredentialUsed ==
    [][\A req \in Dispatched :
         issued' > LoginToken =>
            /\ req.hdr \notin LoginToken..(issued' - 1)
            /\ (req.phase = "replay" =>
                   req.hdr = issued' /\ store'.access = issued')
            /\ (req.phase = "sent" /\ store.access # Absent =>
                   req.hdr = issued)]_vars

C3_Witness ==
    \E r, q \in InFlight :
        /\ issued > LoginToken
        /\ r.phase = "replay" /\ r.hdr = issued
        /\ q.phase = "sent" /\ q.hdr = issued

\* C4: one originating request calls the refresh endpoint at most once and
\* is replayed at most once; a request in its refresh is marked retried, and
\* a failure of the replay (its 401 included) is returned to the caller as
\* a rejection.
C4_OneRefreshOneReplay ==
    /\ \A req \in InFlight :
          /\ req.refreshCalls <= 1
          /\ req.replays <= 1
          /\ (req.phase = "refreshing" => req.retry /\ req.replays = 0)
          /\ (req.phase = "replay" => req.replays = 1)
    /\ (ev.type = "settle" =>
          /\ ev.refreshCalls <= 1
          /\ ev.replays <= 1
          /\ (ev.replays = 1 /\ ev.status # 200 => ev.outcome = "rejected"))

C4_Witness ==
    /\ ev.type = "settle" /\ ev.replays = 1 /\ ev.refreshCalls = 1
    /\ ev.status = 401 /\ ev.outcome = "rejected"

\* C5: a 401 handled with no refresh credential stored, and a refresh call
\* that fails, each clear the TokenStore entirely, send the application to
\* /login and reject the originating call.
C5_TerminalFailure ==
    [][\A req \in Left :
         (UnauthorizedWithoutRefresh(req) \/ RefreshFailed(req)) =>
            /\ store' = ClearedStore
            /\ redirects' = Bump(redirects) /\ redirects' > 0
            /\ ev'.outcome = "rejected"]_vars

C5_Witness ==
    /\ ev.type = "settle" /\ ev.terminal /\ ev.refreshCalls = 1
    /\ ev.outcome = "rejected" /\ store = ClearedStore /\ redirects = 1

\* C6: the stored access credential changes only by the commit of a refresh
\* call that returned successfully (to the credential that call returned,
\* the refresh credential kept) or by clearing the whole store; starting a
\* refresh writes nothing.
C6_AccessWrittenByCommitOnly ==
    [][/\ (store' # store =>
              \/ store' = ClearedStore
              \/ /\ \E req \in Left : req.phase = "refreshing"
                 /\ \E req \in Dispatched : req.phase = "replay"
                 /\ issued' = issued + 1
                 /\ store' = [store EXCEPT !.access = issued'])
       /\ (\E req \in BagToSet(reqs' (-) reqs) : req.phase = "refreshing") =>
              store' = store]_vars

C6_Witness ==
    /\ store.access = issued /\ issued > LoginToken /\ store.refresh
    /\ CountIn({"refreshing"}) > 0

\* ======================================================================
\* Properties of the dashboard's document collection and polling
\* ======================================================================
\* GET /documents/ attempts on the wire.
FetchesInFlight ==
    BagCardinality([req \in {q \in InFlight :
                                /\ q.kind = "docs"
                                /\ q.phase \in {"sent", "replay"}} |-> reqs[req]])

\* The step before this state was a document fetch settling.
FetchSettled == ev.type = "settle" /\ ev.kind = "docs"

\* C7: at most one document-collection fetch is in flight at any time.
C7_OneFetchInFlight == FetchesInFlight <= 1

\* C8: while the dashboard is mounted the poll timer is armed exactly when
\* the collection holds a pending or processing document (so after every
\* applied snapshot the next fetch is scheduled iff one is left), and it is
\* never armed once the dashboard is gone.
C8_PollScheduledIffNonTerminal ==
    /\ view = "mounted" =>
          (pollTimer <=> \E d \in DocIds :
                            documents[d] \in {"pending", "processing"})
    /\ view # "mounted" => ~pollTimer

C8_Witness ==
    /\ FetchSettled /\ ev.outcome = "resolved" /\ view = "mounted"
    /\ \E d \in DocIds : documents[d] = "completed"
    /\ \A d \in DocIds : documents[d] \notin {"pending", "processing"}
    /\ ~pollTimer

\* C9: when a fetch has ended in a terminal authorization failure (the
\* TokenStore cleared, the session over), the poll timer is no longer armed.
C9_PollerStopsWithSession ==
    (FetchSettled /\ ev.outcome = "rejected" /\ ev.status = 401
        /\ store = ClearedStore) => ~pollTimer

\* C10: after the dashboard is torn down no timer it created is armed:
\* neither the poll timer nor a notice timer.
C10_NothingLeftAfterTeardown ==
    view = "unmounted" =>
        /\ ~pollTimer
        /\ noticeTimers = 0

\* The backend holds no document that is still to be analysed or in analysis.
ServerSettled ==
    \A d \in DocIds : serverDocs[d] \in {"absent", "completed", "failed"}

\* The step before this state was a document fetch failing.
FetchFailed == FetchSettled /\ ev.outcome = "rejected"

\* C11: if from some time on every document on the server is completed or
\* failed and stays so, and from some time on no fetch fails, then from some
\* time on the client's collection equals the server's documents and no
\* poll timer is armed.
C11_EventuallyConsistent ==
    (<>[]ServerSettled /\ <>[]~FetchFailed)
        => <>[](documents = serverDocs /\ ~pollTimer)

\* C12: a fetch that succeeds sets the client's collection to exactly the
\* snapshot the server returned (a document the snapshot lacks is dropped,
\* nothing of the previous collection is kept); a fetch that fails leaves
\* the collection as it was.
C12_FetchReplacesCollection ==
    [][(ev'.type = "settle" /\ ev'.kind = "docs" /\ view = "mounted") =>
          IF ev'.outcome = "resolved"
          THEN documents' = serverDocs'
          ELSE documents' = documents]_vars

\* A fetch has just dropped a document the dashboard had shown: a request
\* to analyse it is still in flight.
C12_Witness ==
    /\ FetchSettled /\ ev.outcome = "resolved" /\ view = "mounted"
    /\ documents = serverDocs
    /\ \E req \in InFlight :
          req.kind = "analyze" /\ documents[req.doc] = "absent"

\* ======================================================================
\* Properties of the chats (checked under SpecChat)
\* ======================================================================
\* The text consists of white space only (the empty text included).
AllWhite(text) == \A i \in 1..Len(text) : text[i] = " "

\* The ask requests the step issues.
NewAsks ==
    {req \in BagToSet(reqs' (-) reqs) :
        req.kind \in AskKinds /\ req.phase = "sent"}

\* How many ask requests the bag holds.
AsksIn(bag) ==
    BagCardinality([req \in {q \in BagToSet(bag) : q.kind \in AskKinds}
                       |-> bag[req]])

\* The second log is the first with one message of the role added at its end.
Added(log, log2, role) ==
    /\ Len(log2) = Len(log) + 1
    /\ SubSeq(log2, 1, Len(log)) = log
    /\ log2[Len(log2)].role = role

\* C13: an ask whose question is empty or white space only changes no state
\* (neither log, neither question field, not the asking flag) and issues no
\* request.
C13_BlankAskChangesNothing ==
    [][/\ ev'.type = "return" =>
             UNCHANGED <<messages, globalMessages, input, globalInput,
                         isAsking, activeDoc, reqs, store, documents>>
       /\ \A req \in NewAsks :
             ~AllWhite(IF req.kind = "global_ask" THEN globalInput ELSE input)
      ]_vars

C13_Witness ==
    /\ ev.type = "return" /\ ev.kind = "ask"
    /\ input = <<" ">>
    /\ ~isAsking /\ messages = <<>> /\ AsksIn(reqs) = 0

\* C14: an accepted ask appends the user's message to the log of its own
\* scope, and its request settling appends one assistant message to that
\* log: the answer with its sources on success, a failure text on failure;
\* the other log is left alone.
C14_TwoMessagesPerAsk ==
    [][/\ \A req \in NewAsks :
             IF req.kind = "global_ask"
             THEN /\ globalMessages' =
                        Append(globalMessages,
                               [role |-> "user", content |-> globalInput,
                                sources |-> FALSE, isGlobal |-> TRUE])
                  /\ messages' = messages
             ELSE /\ messages' =
                        Append(messages,
                               [role |-> "user", content |-> input,
                                sources |-> FALSE, isGlobal |-> FALSE])
                  /\ globalMessages' = globalMessages
       /\ (ev'.type = "settle" /\ ev'.kind \in AskKinds /\ view = "mounted") =>
             LET ok == ev'.outcome = "resolved"
                 msg == [role |-> "ai",
                         content |-> IF ok THEN <<"answer">> ELSE <<"failure">>,
                         sources |-> ok,
                         isGlobal |-> (ev'.kind = "global_ask")]
             IN  IF ev'.kind = "global_ask"
                 THEN /\ globalMessages' = Append(globalMessages, msg)
                      /\ messages' = messages
                 ELSE /\ messages' = Append(messages, msg)
                      /\ globalMessages' = globalMessages
      ]_vars

C14_Witness ==
    /\ ev.type = "settle" /\ ev.kind = "ask" /\ ev.outcome = "rejected"
    /\ Len(messages) = 2
    /\ messages[1].role = "user" /\ messages[2].role = "ai"
    /\ messages[2].content = <<"failure">>

\* C15: the step that issues an ask request issues exactly one request, to
\* the global endpoint from the global chat and to the active document's
\* endpoint from the document chat, and in that step the user's message is
\* appended, the scope's question field is cleared and asking is set; a
\* user message is appended by such a step only.
C15_OneCallPerAcceptedAsk ==
    [][/\ \A req \in NewAsks :
             /\ BagCardinality(reqs' (-) reqs) = 1
             /\ AsksIn(reqs') = AsksIn(reqs) + 1
             /\ isAsking'
             /\ IF activeDoc = 0
                THEN /\ req.kind = "global_ask" /\ req.doc = 0
                     /\ globalInput' = <<>>
                     /\ Added(globalMessages, globalMessages', "user")
                ELSE /\ req.kind = "ask" /\ req.doc = activeDoc
                     /\ input' = <<>>
                     /\ Added(messages, messages', "user")
       /\ (\/ Added(messages, messages', "user")
           \/ Added(globalMessages, globalMessages', "user")) => NewAsks # {}
      ]_vars

C15_Witness ==
    /\ isAsking /\ activeDoc # 0 /\ input = <<>>
    /\ Len(messages) = 1 /\ messages[1].role = "user"
    /\ \E req \in InFlight :
          req.kind = "ask" /\ req.doc = activeDoc /\ req.phase = "sent"

\* C16: while the dashboard is mounted asking is true exactly when an ask
\* request is in flight, and when an ask has settled, with an answer or
\* with a failure, asking is false.
C16_AskingIffAskInFlight ==
    /\ view = "mounted" => (isAsking <=> AsksIn(reqs) > 0)
    /\ (ev.type = "settle" /\ ev.kind \in AskKinds) => ~isAsking

C16_Witness ==
    /\ view = "mounted"
    /\ ev.type = "settle" /\ ev.kind = "global_ask" /\ ev.outcome = "rejected"
    /\ ~isAsking /\ AsksIn(reqs) = 0
    /\ Len(globalMessages) = 2

\* C17: at most one ask is in flight, and while asking is true no ask is
\* submitted.
C17_OneAskInFlight ==
    [][/\ AsksIn(reqs') <= 1
       /\ isAsking => NewAsks = {}]_vars

\* A question is ready in the document chat while an ask is in flight.
C17_Witness ==
    /\ UiVisible /\ activeDoc # 0
    /\ isAsking /\ AsksIn(reqs) = 1
    /\ ~AllWhite(input)

\* C18: the two chats are independent: a chat that is shown and has no ask
\* of its own in flight accepts a question, whatever the other chat does.
C18_IndependentSessions ==
    \A scope \in Scopes :
        (/\ UiVisible
         /\ FormShown(scope)
         /\ \A req \in InFlight : req.kind # AskKind(scope)
         /\ scope = "global" => \E d \in DocIds : documents[d] = "completed")
            => InputEnabled(scope)

\* C19: closing the document chat, opening another document and the
\* deletion of the active document leave the document chat's log empty and
\* the global log as it was.
C19_ScopedLogDiscarded ==
    [][view' = "mounted" =>
          /\ activeDoc' # activeDoc =>
                messages' = <<>> /\ globalMessages' = globalMessages
          /\ (/\ ev'.type = "settle" /\ ev'.kind = "delete"
              /\ ev'.outcome = "resolved"
              /\ \E req \in Left : req.kind = "delete" /\ req.doc = activeDoc)
                => messages' = <<>> /\ globalMessages' = globalMessages
      ]_vars

\* C20: while the dashboard is mounted a step leaves a log as it was, or
\* adds one message at its end, or (the document chat's log only) empties
\* it: no message of a log is changed, moved or removed on its own, and the
\* global log is never emptied.
C20_LogsAppendOnly ==
    [][view' = "mounted" =>
          /\ \/ messages' = messages
             \/ /\ Len(messages') = Len(messages) + 1
                /\ SubSeq(messages', 1, Len(messages)) = messages
             \/ messages' = <<>>
          /\ \/ globalMessages' = globalMessages
             \/ /\ Len(globalMessages') = Len(globalMessages) + 1
                /\ SubSeq(globalMessages', 1, Len(globalMessages))
                      = globalMessages
      ]_vars

\* The document chat was opened, its log empty, with the global log kept.
C20_Witness ==
    /\ view = "mounted" /\ activeDoc # 0
    /\ messages = <<>>
    /\ Len(globalMessages) = 2

\* ======================================================================
\* Properties of the dashboard as a whole
\* ======================================================================
\* C21: no ask of the document chat is issued for a document that the
\* client's collection shows as pending, processing or failed.
C21_ScopedAskOnCompletedOnly ==
    [][\A req \in NewAsks :
          req.kind = "ask" =>
             documents[req.doc] \notin {"pending", "processing", "failed"}
      ]_vars

\* C22: while the client's collection holds no completed document, the
\* global form submits nothing and no global_ask request is issued.
NoCompletedDocument == \A d \in DocIds : documents[d] # "completed"

C22_NoGlobalAskWithoutCompleted ==
    [][NoCompletedDocument =>
          /\ \A req \in NewAsks : req.kind # "global_ask"
          /\ globalMessages' # globalMessages =>
                \/ globalMessages' = <<>>
                \/ ev'.type = "settle"
      ]_vars

\* The global form holds a question while no document is completed.
C22_Witness ==
    /\ UiVisible
    /\ FormShown("global")
    /\ ~AllWhite(globalInput)
    /\ ~isAsking
    /\ NoCompletedDocument

\* C23: a file that is not declared application/pdf, or is larger than
\* 10 MiB, is refused with an error notice, without a request and without
\* the uploading flag; a PDF of at most 10 MiB is sent as one POST /documents/.
C23_UploadValidation ==
    [][ev'.kind = "upload" /\ ev'.type \in {"call", "return"}
            /\ ev'.file # NoFile =>
          IF \/ ev'.file.type # "application/pdf"
             \/ ev'.file.size > 10 * 1024 * 1024
          THEN /\ ev'.notice = "error"
               /\ reqs' = reqs
               /\ ~uploading'
          ELSE /\ BagCardinality(reqs' (-) reqs) = 1
               /\ \A req \in Dispatched :
                     req.kind = "upload" /\ req.phase = "sent"
               /\ reqs (-) reqs' = EmptyBag
      ]_vars

\* A PDF one byte over the limit was refused.
C23_Witness ==
    /\ ev.type = "return"
    /\ ev.file = [type |-> "application/pdf", size |-> 10 * 1024 * 1024 + 1]
    /\ ev.notice = "error"
    /\ ~uploading

\* C24: the auth check of a mounting dashboard redirects to /login and
\* leaves it unauthenticated when the store holds no access credential, and
\* authenticates it otherwise; a dashboard that is not authenticated never
\* becomes so later and issues no request.
C24_SessionGuard ==
    [][/\ view = "mounting" /\ view' = "mounted" =>
            IF store.access = Absent
            THEN pushed' /\ ~isAuthenticated'
            ELSE isAuthenticated'
       /\ view = "mounted" /\ view' = "mounted" /\ ~isAuthenticated =>
            ~isAuthenticated'
       /\ view' # "unmounted" /\ ~isAuthenticated' =>
            \A req \in Dispatched : req.phase # "sent"
      ]_vars

\* The dashboard was mounted without a credential: redirected, not
\* authenticated, nothing requested.
C24_Witness ==
    /\ view = "mounted"
    /\ store.access = Absent
    /\ ~isAuthenticated
    /\ pushed
    /\ reqs = EmptyBag

\* C25: the token store is written only by the interceptor's refresh (the
\* commit of a new access credential, the clear on a terminal failure) and
\* by logout; fetching, polling, chat, upload, analyze and delete leave it
\* as it is.
C25_StoreWrittenByRefreshOrLogout ==
    [][store' # store =>
          \/ /\ \E req \in Left : req.phase = "refreshing"
             /\ store' = [store EXCEPT !.access = issued']
          \/ /\ ev'.terminal
             /\ store' = ClearedStore
          \/ /\ ev' = NoEvent
             /\ reqs' = reqs
             /\ pushed'
             /\ store' = ClearedStore
      ]_vars

\* C26: no two ids that generateMessageId returned in one session are equal.
C26_UniqueMessageIds ==
    \A i, j \in 1..Len(msgIds) : i # j => msgIds[i] # msgIds[j]

\* ======================================================================
\* Properties of the credentials attached to requests
\* ======================================================================

\* C27: a request sent through the client carries the access credential the
\* store holds at that moment, and no Authorization header if the store holds
\* none; sending it is one attempt, which replays nothing and writes nothing.
C27_BearerFromStore ==
    [][\A req \in Dispatched :
         req.phase = "sent" =>
            /\ req.hdr = store.access
            /\ (store.access = Absent => req.hdr = Absent)
            /\ ~req.retry /\ req.refreshCalls = 0 /\ req.replays = 0
            /\ BagCardinality(reqs' (-) reqs) = 1
            /\ reqs (-) reqs' = EmptyBag
            /\ store' = store
      ]_vars

\* A request was sent without a header from an empty store, next to one
\* that carries a credential.
C27_Witness ==
    \E r, q \in InFlight :
        /\ store.access = Absent
        /\ r.phase = "sent" /\ r.hdr = Absent
        /\ q.hdr # Absent

\* C28: the signup call POST /users/ is sent without an Authorization
\* header, also when the store holds an access credential.
C28_SignupWithoutBearer ==
    [][\A req \in Dispatched : req.kind = "users" => req.hdr = Absent]_vars

\* C30: a replay is sent in the step that ends a refresh call and commits
\* its credential, and carries the access credential the store holds when
\* it is sent, also when several refreshes end one after another.
C30_ReplayCarriesCommitted ==
    [][\A req \in Dispatched :
         req.phase = "replay" =>
            /\ \E old \in Left : old.phase = "refreshing"
            /\ req.hdr # Absent
            /\ req.hdr = store'.access
            /\ store'.access # store.access
      ]_vars

\* Two refreshes have ended: both replays are in flight, each with the
\* credential its refresh committed, and the store holds the later one.
C30_Witness ==
    \E r, q \in InFlight :
        /\ r.phase = "replay" /\ r.hdr = LoginToken + 1
        /\ q.phase = "replay" /\ q.hdr = LoginToken + 2
        /\ store.access = LoginToken + 2

\* ======================================================================
\* Properties of the dashboard's failure handling
\* ======================================================================

\* C29: a failed call of a dashboard operation ends in an error notice or
\* in a failure message of the chat.
C29_FailuresShown ==
    /\ ev.type = "settle"
    /\ ev.outcome = "rejected"
    /\ ev.kind \in {"docs", "upload", "analyze", "delete", "ask", "global_ask"}
    /\ view = "mounted"
    => ev.notice \in {"error", "message"}

\* ======================================================================
\* Properties of the session and of the open document
\* ======================================================================

\* C31: a mounted dashboard is not authenticated while the store holds no
\* access credential.
C31_AuthenticatedHoldsCredential ==
    view = "mounted" /\ isAuthenticated => store.access # Absent

\* C32: the status of a document the client holds changes only in the step
\* that applies a fetched list; upload, analyze, delete, ask, open and close
\* change no status.
C32_StatusChangesByFetchOnly ==
    [][\A d \in DocIds :
         /\ documents[d] # "absent"
         /\ documents'[d] # "absent"
         /\ documents'[d] # documents[d]
         => /\ ev'.type = "settle"
            /\ ev'.kind = "docs"
            /\ ev'.outcome = "resolved"
      ]_vars

\* An analysis was started and its call returned: the document is still
\* shown as pending while the backend has it as processing.
C32_Witness ==
    \E d \in DocIds :
        /\ ev.type = "settle" /\ ev.kind = "analyze" /\ ev.outcome = "resolved"
        /\ documents[d] = "pending"
        /\ serverDocs[d] = "processing"

\* C33: every assistant message of the document chat's log follows a user
\* message in that log; a reply to a question about a document that was
\* closed since is not in it.
C33_RepliesFollowQuestions ==
    \A i \in 1..Len(messages) :
        messages[i].role = "ai" => i > 1 /\ messages[i - 1].role = "user"

\* C34: the store never holds an access credential without a refresh
\* credential: once cleared, it is not written by a refresh that was under
\* way.
C34_ClearedStoreStaysEmpty ==
    store.access # Absent => store.refresh

\* How far the backend has taken a document: it goes from pending to
\* processing to completed or failed, and never back.
StatusRank(status) ==
    CASE status = "pending" -> 1
      [] status = "processing" -> 2
      [] OTHER -> 3

\* C35: fetched lists are applied in the order their requests were issued,
\* so a document the client holds never goes back from a later status to
\* an earlier one.
C35_SnapshotsInIssueOrder ==
    [][\A d \in DocIds :
         documents[d] # "absent" /\ documents'[d] # "absent" =>
            StatusRank(documents'[d]) >= StatusRank(documents[d])
      ]_vars

\* C36: a document that was deleted, and that the client has removed from
\* its collection, is not put back by the response of a fetch. (No document
\* is created in SpecReorder, so a document that neither side holds was
\* deleted or never existed.)
C36_DeletedStaysRemoved ==
    [][\A d \in DocIds :
         documents[d] = "absent" /\ serverDocs[d] = "absent" =>
            documents'[d] = "absent"
      ]_vars

\* C37: the document whose chat is open is in the client's collection.
C37_ActiveDocInCollection ==
    activeDoc # 0 => documents[activeDoc] # "absent"

\* ======================================================================
\* Properties of the signup page
\* ======================================================================

\* C38: a submission with differing passwords sets an error and sends
\* nothing; /login is entered only when POST /users/ has succeeded; a
\* failed signup sets an error and leads to no redirect.
C38_SignupOutcome ==
    [][/\ ev'.type = "return" /\ ev'.kind = "users" =>
            ev'.notice = "error" /\ reqs' = reqs
       /\ (pushed' /\ ~pushed) \/ redirects' # redirects =>
            /\ ev'.type = "settle"
            /\ ev'.kind = "users"
            /\ ev'.outcome = "resolved"
       /\ ev'.type = "settle" /\ ev'.kind = "users"
            /\ ev'.outcome = "rejected" =>
            /\ ev'.notice = "error"
            /\ pushed' = pushed
            /\ redirects' = redirects
      ]_vars

====
